---- MODULE Spec2Model ----
(***************************************************************************)
(* The "write" tool of cerebras-code-mcp (src/mcp-server-sdk.js): the      *)
(* CallToolRequestSchema handler, the provider chain callCerebras ->       *)
(* callOpenRouter, the file access helpers, the response sanitizer         *)
(* cleanCodeResponse and the diff synthesizer generateGitDiff.             *)
(* The removal wizard of the setup program (handleRemoval and the          *)
(* functions it calls) is modelled on the configuration file of one        *)
(* editor.                                                                 *)
(*                                                                         *)
(* Texts are sequences of one-character strings.  A TLA+ string cannot     *)
(* hold the backquote character, so BQ stands for it throughout.           *)
(* Error messages are sequences of message fragments: a template string    *)
(* of the source is the concatenation of its fragments.                    *)
(***************************************************************************)
EXTENDS Integers, Sequences, FiniteSets, TLC

----------------------------------------------------------------------------
(* Characters and JavaScript string primitives                             *)

BQ == "'"
NL == "\n"
SP == " "

\* the letters of [a-zA-Z] that the modelled texts use
Letters == {"p", "s", "o", "a", "b", "c", "d"}

\* characters String.prototype.trim removes
WhiteSpace == {NL, SP}

\* null and undefined: one-element sequences whose element is no character,
\* so that they differ from every text (the empty text included)
NULL == <<"null">>
UNDEFINED == <<"undefined">>

\* JavaScript truthiness of a value that is null, undefined or a text
Truthy(v) == v # NULL /\ v # UNDEFINED /\ v # <<>>

RECURSIVE TrimStart(_)
TrimStart(s) ==
    IF s # <<>> /\ Head(s) \in WhiteSpace THEN TrimStart(Tail(s)) ELSE s

RECURSIVE TrimEnd(_)
TrimEnd(s) ==
    IF s # <<>> /\ s[Len(s)] \in WhiteSpace
    THEN TrimEnd(SubSeq(s, 1, Len(s) - 1))
    ELSE s

trim(s) == TrimEnd(TrimStart(s))

\* index of the first NL of s, 0 when there is none
RECURSIVE IndexOfNL(_, _)
IndexOfNL(s, i) ==
    IF i > Len(s) THEN 0
    ELSE IF s[i] = NL THEN i
    ELSE IndexOfNL(s, i + 1)

\* s.split('\n'): never empty, the empty text gives one empty line
RECURSIVE split(_)
split(s) ==
    LET k == IndexOfNL(s, 1)
    IN  IF k = 0 THEN <<s>>
        ELSE <<SubSeq(s, 1, k - 1)>> \o split(SubSeq(s, k + 1, Len(s)))

\* lines.join('\n')
RECURSIVE join(_)
join(lines) ==
    IF lines = <<>> THEN <<>>
    ELSE IF Len(lines) = 1 THEN lines[1]
    ELSE lines[1] \o <<NL>> \o join(Tail(lines))

----------------------------------------------------------------------------
(* cleanCodeResponse                                                       *)

\* the three backquotes of a fence start at position i of s
IsFenceAt(s, i) ==
    /\ i >= 1
    /\ i + 2 <= Len(s)
    /\ s[i] = BQ /\ s[i + 1] = BQ /\ s[i + 2] = BQ

\* the first fence of s at a position >= i, 0 when there is none
RECURSIVE FenceFrom(_, _)
FenceFrom(s, i) ==
    IF i + 2 > Len(s) THEN 0
    ELSE IF IsFenceAt(s, i) THEN i
    ELSE FenceFrom(s, i + 1)

\* [a-zA-Z]* from position i, greedy: the first position after the letters
RECURSIVE SkipLetters(_, _)
SkipLetters(s, i) ==
    IF i <= Len(s) /\ s[i] \in Letters THEN SkipLetters(s, i + 1) ELSE i

\* \n? from position i
SkipNL(s, i) == IF i <= Len(s) /\ s[i] = NL THEN i + 1 ELSE i

\* the position after "```[a-zA-Z]*\n?" matched at fence i
AfterOpen(s, i) == SkipNL(s, SkipLetters(s, i + 3))

\* /^[a-zA-Z#]+$/.test(line)
IsLanguageTag(line) ==
    /\ line # <<>>
    /\ \A i \in 1..Len(line) : line[i] \in Letters \cup {"#"}

\* lines 54-58 and 69-73: drop a first line that is a bare language tag
DropLanguageTag(code) ==
    LET lines == split(code)
    IN  IF IsLanguageTag(trim(lines[1]))
        THEN trim(join(Tail(lines)))
        ELSE code

\* response.replace(/```[a-zA-Z]*\n?/g, '')
RECURSIVE StripOpenFences(_)
StripOpenFences(s) ==
    LET i == FenceFrom(s, 1)
    IN  IF i = 0 THEN s
        ELSE SubSeq(s, 1, i - 1)
             \o StripOpenFences(SubSeq(s, AfterOpen(s, i), Len(s)))

\* .replace(/```\n?/g, '')
RECURSIVE StripFences(_)
StripFences(s) ==
    LET i == FenceFrom(s, 1)
    IN  IF i = 0 THEN s
        ELSE SubSeq(s, 1, i - 1)
             \o StripFences(SubSeq(s, SkipNL(s, i + 3), Len(s)))

\* the first match of /```[a-zA-Z]*\n?([\s\S]*?)```/ in s: <<start of the
\* captured group, position of the closing fence>>, <<0, 0>> without a match.
\* The leftmost fence opens the match when a closing fence follows its
\* letters and newline; otherwise no later fence can open one either.
FirstCodeBlock(s) ==
    LET i == FenceFrom(s, 1)
        p == IF i = 0 THEN 0 ELSE AfterOpen(s, i)
        k == IF i = 0 THEN 0 ELSE FenceFrom(s, p)
    IN  IF i = 0 \/ k = 0 THEN <<0, 0>> ELSE <<p, k>>

cleanCodeResponse(response) ==
    IF ~Truthy(response) THEN response
    ELSE LET m == FirstCodeBlock(response)
         IN  IF m[2] # 0
             THEN DropLanguageTag(trim(SubSeq(response, m[1], m[2] - 1)))
             ELSE DropLanguageTag(trim(StripFences(StripOpenFences(response))))

----------------------------------------------------------------------------
(* Bounds                                                                  *)

\* changes another process makes to the target file while a call runs
MaxExternal == 1

----------------------------------------------------------------------------
(* Paths and files                                                         *)

\* A path is the sequence of its segments: it starts with "/" when it is
\* absolute and with "~" when it is home-relative.
HOME == <<"/", "home", "u">>
CWD == <<"/", "home", "u">>

TargetPath == <<"/", "home", "u", "t.js">>
TargetHomePath == <<"~", "t.js">>
TargetRelativePath == <<"t.js">>
ContextPath == <<"/", "home", "u", "c.py">>
OtherContextPath == <<"/", "home", "u", "d.py">>

\* the files of the modelled file system, by absolute path
Files == {TargetPath, ContextPath, OtherContextPath}

\* path.extname(filePath).toLowerCase() of a path's last segment
ExtName(name) ==
    CASE name = "t.js" -> ".js"
      [] name = "c.py" -> ".py"
      [] name = "d.py" -> ".py"
      [] OTHER -> ""

getLanguageFromFile(filePath) ==
    LET ext == ExtName(filePath[Len(filePath)])
    IN  CASE ext = ".js" -> "javascript"
          [] ext = ".py" -> "python"
          [] OTHER -> "text"

\* readFileContent and writeFileContent: the absolute path an argument names
absolutePath(filePath) ==
    IF filePath[1] = "/" THEN filePath
    ELSE IF filePath[1] = "~" THEN HOME \o Tail(filePath)
    ELSE CWD \o filePath

\* path.resolve(file): no home expansion
resolve(file) == IF file[1] = "/" THEN file ELSE CWD \o file

\* the state of a file: it holds a text, it does not exist, or it cannot be
\* read (any error code other than ENOENT)
Exists(text) == [code |-> "OK", content |-> text]
ENOENT == [code |-> "ENOENT", content |-> <<>>]
EACCES == [code |-> "EACCES", content |-> <<>>]

\* the contents "a\nb\nc\n" and "a\nb\nd\n": three lines, the last one differs
ThreeLines == <<"a", NL, "b", NL, "c", NL>>
ThreeLinesEdited == <<"a", NL, "b", NL, "d", NL>>

OldTexts == {<<>>, <<"o", "1">>, ThreeLines}
TargetStates == {ENOENT, EACCES} \cup {Exists(t) : t \in OldTexts}
ContextStates == {ENOENT, EACCES, Exists(<<"a", "1">>)}
OtherContextStates == {ENOENT, EACCES, Exists(<<"b", "1">>)}

\* the file state a read of filePath meets in file system f
FileAt(f, filePath) ==
    IF absolutePath(filePath) \in DOMAIN f THEN f[absolutePath(filePath)]
    ELSE ENOENT

\* `Failed to read file ${filePath}: ${error.message}`
ReadError(st) == <<"Failed to read file: ", st.code>>

\* readFileContent answering null for every failure, ENOENT or not
readFileContentAnyErrorNull(f, filePath) ==
    LET st == FileAt(f, filePath)
    IN  IF st.code = "OK"
        THEN [threw |-> FALSE, value |-> st.content, message |-> <<>>]
        ELSE [threw |-> FALSE, value |-> NULL, message |-> <<>>]

\* readFileContent(filePath) in file system f: the content, null for a file
\* that does not exist, and a throw for every other failure
readFileContent(f, filePath) ==
    LET st == FileAt(f, filePath)
    IN  CASE st.code = "OK" ->
               [threw |-> FALSE, value |-> st.content, message |-> <<>>]
          [] st.code = "ENOENT" ->
               [threw |-> FALSE, value |-> NULL, message |-> <<>>]
          [] OTHER ->
               [threw |-> TRUE, value |-> NULL, message |-> ReadError(st)]

\* `Failed to write file ${filePath}: ${error.message}`
WriteError(cause) == <<"Failed to write file: ", cause>>

\* one write of the call: the path, the data, whether it succeeded
FileWrite(path, content, ok) == [path |-> path, content |-> content, ok |-> ok]

----------------------------------------------------------------------------
(* The request, the configuration and the providers' answers               *)

Prompt == <<"d", "o">>

Requests ==
    [file_path : {UNDEFINED, <<>>, TargetPath},
     prompt : {UNDEFINED, <<>>, Prompt},
     context_files : {<<>>, <<ContextPath>>, <<TargetPath, ContextPath>>,
                      <<TargetHomePath>>, <<ContextPath, TargetRelativePath>>}]

Configs == [cerebrasApiKey : BOOLEAN, openRouterApiKey : BOOLEAN]

HTTP_OK == 200

\* raw completions, the primary's and the secondary's told apart by a letter
Fenced(t) == <<BQ, BQ, BQ, "a", NL>> \o t \o <<NL, BQ, BQ, BQ>>
CerebrasCompletions == {<<"p", "1">>, Fenced(<<"p", "2">>), ThreeLinesEdited}
OpenRouterCompletions == {<<"s", "1">>, Fenced(<<"s", "2">>)}

\* A response: its status and what its body parses to.  json: JSON.parse
\* succeeds; choices: response.choices[0] is there; message: it has a
\* message; content: message.content.
Body(j, c, m, t) == [json |-> j, choices |-> c, message |-> m, content |-> t]
Bodies(completions) ==
    {Body(FALSE, FALSE, FALSE, UNDEFINED), Body(TRUE, FALSE, FALSE, UNDEFINED),
     Body(TRUE, TRUE, FALSE, UNDEFINED), Body(TRUE, TRUE, TRUE, UNDEFINED)}
    \cup {Body(TRUE, TRUE, TRUE, t) : t \in completions}
Responses(completions) ==
    [statusCode : {HTTP_OK, 500}, body : Bodies(completions)]

\* res.on('end') of either provider: how the response settles the promise
ParseFailure(cause) == <<"Failed to parse API response: ", cause>>
ApiError(name, statusCode) ==
    <<name, " API error: ", IF statusCode = 500 THEN "500" ELSE "200",
      " - ", "Unknown error">>

----------------------------------------------------------------------------
(* The prompt                                                              *)

PromptPart(part, file, text) == [part |-> part, file |-> file, text |-> text]

\* `Generate ${detectedLanguage} code for: ${prompt}`
Instruction(outputFile, prompt) ==
    <<PromptPart("Generate", <<getLanguageFromFile(outputFile)>>, prompt)>>

\* contextFiles.filter(file => path.resolve(file) !== path.resolve(outputFile))
RECURSIVE filterContextFiles(_, _)
filterContextFiles(contextFiles, outputFile) ==
    IF contextFiles = <<>> THEN <<>>
    ELSE (IF resolve(Head(contextFiles)) # resolve(outputFile)
          THEN <<Head(contextFiles)>> ELSE <<>>)
         \o filterContextFiles(Tail(contextFiles), outputFile)

\* the loop left at the first file whose read throws
RECURSIVE contextContentUntilFailure(_, _)
contextContentUntilFailure(f, files) ==
    IF files = <<>> THEN <<>>
    ELSE LET r == readFileContent(f, Head(files))
         IN  IF r.threw THEN <<>>
             ELSE (IF Truthy(r.value)
                   THEN <<PromptPart("File", Head(files), r.value)>> ELSE <<>>)
                  \o contextContentUntilFailure(f, Tail(files))

\* the loop over the filtered context files: one "File:" block per file that
\* is read and has content; a file whose read throws is skipped with a warning
RECURSIVE contextContent(_, _)
contextContent(f, files) ==
    IF files = <<>> THEN <<>>
    ELSE LET r == readFileContent(f, Head(files))
         IN  (IF ~r.threw /\ Truthy(r.value)
              THEN <<PromptPart("File", Head(files), r.value)>> ELSE <<>>)
             \o contextContent(f, Tail(files))

\* the prompt after the context section is added
WithContext(f, outputFile, prompt, contextFiles) ==
    LET filtered == filterContextFiles(contextFiles, outputFile)
    IN  IF filtered # <<>>
        THEN <<PromptPart("Context Files:", <<>>, <<>>)>>
             \o contextContent(f, filtered) \o Instruction(outputFile, prompt)
        ELSE Instruction(outputFile, prompt)

\* the prompt after the existing file content is put in front of it
WithExisting(existing, full) ==
    IF Truthy(existing)
    THEN <<PromptPart("Existing file content:", <<>>, existing)>> \o full
    ELSE full

\* [ok, value, message]: the promise resolved with value or rejected with message
Resolved(v) == [ok |-> TRUE, value |-> v, message |-> <<>>]
Rejected(m) == [ok |-> FALSE, value |-> UNDEFINED, message |-> m]

\* the 'end' handler: JSON.parse, the status and choices test, the content
Settlement(name, resp) ==
    IF ~resp.body.json THEN Rejected(ParseFailure("SyntaxError"))
    ELSE IF resp.statusCode = HTTP_OK /\ resp.body.choices
    THEN IF ~resp.body.message THEN Rejected(ParseFailure("TypeError"))
         ELSE Resolved(cleanCodeResponse(resp.body.content))
    ELSE Rejected(ApiError(name, resp.statusCode))

\* req.on('error'): `Request failed: ${error.message}`
RequestFailed == <<"Request failed: ", "ECONNRESET">>
\* the callback of req.setTimeout(30000, ...)
RequestTimeout == <<"Request timeout after 30 seconds">>

----------------------------------------------------------------------------
(* State                                                                   *)

VARIABLES
    config,           \* the API keys read from the environment at startup
    args,             \* request.params.arguments of the write call
    fs,               \* the file system: the state of each file
    pc,               \* where the call is
    existingContent,  \* the handler's existingContent (line 651)
    isEdit,           \* the handler's isEdit (line 652)
    fullPrompt,       \* fullPrompt of the provider function that is running
    cerebrasError,    \* error caught at line 563
    setupError,       \* error caught at line 579
    site,             \* the line callOpenRouter was called from
    result,           \* what callCerebras returned (line 655)
    cerebras,         \* history: the primary provider in this call
    openRouter,       \* history: the calls of callOpenRouter, in order
    requests,         \* history: the providers HTTPS requests went to, in order
    fileReads,        \* history: the paths read, in order
    fileWrites,       \* history: the writes of the call, in order
    external,         \* history: how often another process changed the target
    outcome           \* what the call answered: a result or an error

vars == <<config, args, fs, pc, existingContent, isEdit, fullPrompt,
          cerebrasError, setupError, site, result, cerebras, openRouter,
          requests, fileReads, fileWrites, external, outcome>>

handlerVars == <<existingContent, isEdit, result>>
chainVars == <<fullPrompt, cerebrasError, setupError, site>>
historyVars == <<cerebras, openRouter, requests, fileReads, fileWrites>>

NoOutcome == [kind |-> "none", content |-> <<>>, message |-> <<>>]

\* a provider's history: status is "none", "skipped" (no key), "setup" (failed
\* before the request), "sent", "resolved" or "rejected"; late holds the
\* events of the request that were raised after its promise was settled
Provider(status, value, cause) ==
    [status |-> status, value |-> value, cause |-> cause, late |-> <<>>]

Init ==
    /\ config \in Configs
    /\ args \in Requests
    /\ fs \in [Files -> TargetStates \cup ContextStates]
    /\ fs[TargetPath] \in TargetStates
    /\ fs[ContextPath] \in ContextStates
    /\ fs[OtherContextPath] = ENOENT
    /\ pc = "validate"
    /\ existingContent = NULL
    /\ isEdit = FALSE
    /\ fullPrompt = <<>>
    /\ cerebrasError = <<>>
    /\ setupError = <<>>
    /\ site = 0
    /\ result = UNDEFINED
    /\ cerebras = Provider("none", UNDEFINED, <<>>)
    /\ openRouter = <<>>
    /\ requests = <<>>
    /\ fileReads = <<>>
    /\ fileWrites = <<>>
    /\ external = 0
    /\ outcome = NoOutcome

----------------------------------------------------------------------------
(* The CallToolRequestSchema handler                                       *)

\* lines 707-709: every error of the handler's try block is answered as
\* `Failed to write code: ${error.message}`
HandlerThrows(message) ==
    /\ outcome' = [kind |-> "error", content |-> <<>>,
                   message |-> <<"Failed to write code: ">> \o message]
    /\ pc' = "done"

\* the validation without the file_path test of lines 646-648
ValidatePromptOnly ==
    /\ pc = "validate"
    /\ IF ~Truthy(args.prompt)
       THEN HandlerThrows(<<"Prompt is required for write tool">>)
       ELSE pc' = "read" /\ UNCHANGED outcome
    /\ UNCHANGED <<config, args, fs, handlerVars, chainVars, historyVars,
                   external>>

\* lines 636-648
ValidateArguments ==
    /\ pc = "validate"
    /\ IF ~Truthy(args.prompt)
       THEN HandlerThrows(<<"Prompt is required for write tool">>)
       ELSE IF ~Truthy(args.file_path)
       THEN HandlerThrows(<<"file_path is required for write tool">>)
       ELSE pc' = "read" /\ UNCHANGED outcome
    /\ UNCHANGED <<config, args, fs, handlerVars, chainVars, historyVars,
                   external>>

\* the existence check creating the file it does not find
ReadExistingCreates ==
    /\ pc = "read"
    /\ LET r == readFileContent(fs, args.file_path)
       IN  /\ fileReads' = Append(fileReads, absolutePath(args.file_path))
           /\ IF r.threw
              THEN /\ HandlerThrows(r.message)
                   /\ UNCHANGED <<existingContent, isEdit, fs, fileWrites>>
              ELSE /\ existingContent' = r.value
                   /\ isEdit' = (r.value # NULL)
                   /\ pc' = "cerebras"
                   /\ IF r.value = NULL
                      THEN /\ fs' = [fs EXCEPT ![absolutePath(args.file_path)]
                                                  = Exists(<<>>)]
                           /\ fileWrites' = Append(fileWrites,
                                 FileWrite(absolutePath(args.file_path),
                                           <<>>, TRUE))
                      ELSE UNCHANGED <<fs, fileWrites>>
                   /\ UNCHANGED outcome
    /\ UNCHANGED <<config, args, result, chainVars, cerebras, openRouter,
                   external, requests>>

\* lines 650-652
ReadExisting ==
    /\ pc = "read"
    /\ LET r == readFileContent(fs, args.file_path)
       IN  /\ fileReads' = Append(fileReads, absolutePath(args.file_path))
           /\ IF r.threw
              THEN /\ HandlerThrows(r.message)
                   /\ UNCHANGED <<existingContent, isEdit>>
              ELSE /\ existingContent' = r.value
                   /\ isEdit' = (r.value # NULL)
                   /\ pc' = "cerebras"
                   /\ UNCHANGED outcome
    /\ UNCHANGED <<config, args, fs, result, chainVars, cerebras, openRouter,
                   fileWrites, external, requests>>

----------------------------------------------------------------------------
(* callOpenRouter: how it ends, seen from its three call sites             *)

\* one call of callOpenRouter: the line it was called from, its status
\* ("running", "no_key", "setup", "sent", "resolved", "rejected"), the value
\* it resolved with, the message it failed with
Call(from, status, value, cause) ==
    [site |-> from, status |-> status, value |-> value, cause |-> cause]

LastCall == openRouter[Len(openRouter)]

SetLast(status, value, cause) ==
    [openRouter EXCEPT ![Len(openRouter)] = Call(site, status, value, cause)]

\* line 576
BothFailed(cerebrasMessage, openRouterMessage) ==
    <<"Both Cerebras and OpenRouter failed. Cerebras error: ">>
    \o cerebrasMessage \o <<". OpenRouter error: ">> \o openRouterMessage

\* line 592
BothFailedSetup(setupMessage, openRouterMessage) ==
    <<"Both Cerebras and OpenRouter failed. Setup error: ">>
    \o setupMessage \o <<". OpenRouter error: ">> \o openRouterMessage

\* callOpenRouter throws or rejects with message.  Called at line 445 the
\* error is thrown inside the outer try; called at line 574 it is caught at
\* line 575 and the error thrown there is again inside the outer try; called
\* at line 590 it is caught at line 591 and callCerebras throws.
OpenRouterFails(message) ==
    CASE site = 445 ->
           /\ setupError' = message
           /\ pc' = "outer_catch"
           /\ UNCHANGED <<outcome, cerebrasError>>
      [] site = 574 ->
           /\ setupError' = BothFailed(cerebrasError, message)
           /\ pc' = "outer_catch"
           /\ UNCHANGED <<outcome, cerebrasError>>
      [] OTHER ->
           /\ HandlerThrows(BothFailedSetup(setupError, message))
           /\ UNCHANGED <<setupError, cerebrasError>>

\* a call site that awaits callOpenRouter and drops what it resolved with
OpenRouterValueDropped(value) ==
    /\ result' = UNDEFINED
    /\ pc' = "write"

\* callOpenRouter resolves: each call site returns the value (return await)
OpenRouterReturns(value) ==
    /\ result' = value
    /\ pc' = "write"

----------------------------------------------------------------------------
(* callCerebras                                                            *)

\* the key test of line 443 inverted
CerebrasKeyTestInverted == config.cerebrasApiKey

\* line 443
CerebrasKeyMissing == ~config.cerebrasApiKey

\* the key test of lines 569 and 585 inverted
FallbackTestInverted == config.openRouterApiKey

\* lines 569 and 585
FallbackMissing == ~config.openRouterApiKey

\* lines 441-446
CerebrasKeyCheck ==
    /\ pc = "cerebras"
    /\ IF CerebrasKeyMissing
       THEN /\ cerebras' = Provider("skipped", UNDEFINED, <<>>)
            /\ site' = 445
            /\ pc' = "openrouter"
       ELSE /\ pc' = "cerebras_context"
            /\ UNCHANGED <<cerebras, site>>
    /\ UNCHANGED <<config, args, fs, handlerVars, fullPrompt, cerebrasError,
                   setupError, openRouter, fileReads, fileWrites, external,
                   outcome, requests>>

\* the absolute paths the context loop reads
RECURSIVE AbsolutePaths(_)
AbsolutePaths(files) ==
    IF files = <<>> THEN <<>>
    ELSE <<absolutePath(Head(files))>> \o AbsolutePaths(Tail(files))

ContextReads ==
    AbsolutePaths(filterContextFiles(args.context_files, args.file_path))

\* lines 448-481
CerebrasContext ==
    /\ pc = "cerebras_context"
    /\ fullPrompt' = WithContext(fs, args.file_path, args.prompt,
                                 args.context_files)
    /\ fileReads' = fileReads \o ContextReads
    /\ pc' = "cerebras_existing"
    /\ UNCHANGED <<config, args, fs, handlerVars, cerebrasError, setupError,
                   site, cerebras, openRouter, requests, fileWrites, external,
                   outcome>>

\* lines 483-561: the target is read again and the request is sent; a read
\* that throws is caught at line 579
CerebrasRequest ==
    /\ pc = "cerebras_existing"
    /\ fileReads' = Append(fileReads, absolutePath(args.file_path))
    /\ LET r == readFileContent(fs, args.file_path)
       IN  IF r.threw
           THEN /\ setupError' = r.message
                /\ cerebras' = Provider("setup", UNDEFINED, r.message)
                /\ pc' = "outer_catch"
                /\ UNCHANGED <<fullPrompt, requests>>
           ELSE /\ fullPrompt' = WithExisting(r.value, fullPrompt)
                /\ cerebras' = Provider("sent", UNDEFINED, <<>>)
                /\ requests' = Append(requests, "cerebras")
                /\ pc' = "cerebras_wait"
                /\ UNCHANGED setupError
    /\ UNCHANGED <<config, args, fs, handlerVars, cerebrasError, site,
                   openRouter, fileWrites, external, outcome>>

\* a promise that every call of resolve or reject settles anew
settleAgain(promise, s) ==
    [promise EXCEPT !.status = IF s.ok THEN "resolved" ELSE "rejected",
                    !.value = s.value,
                    !.cause = s.message]

\* resolve(value) or reject(error) called in the executor of lines 511-562:
\* the call settles the promise when it is pending and does nothing when the
\* promise is settled already
settle(promise, s) ==
    IF promise.status # "sent" THEN promise
    ELSE [promise EXCEPT !.status = IF s.ok THEN "resolved" ELSE "rejected",
                         !.value = s.value,
                         !.cause = s.message]

\* the promise of lines 511-562 settles: resolved, callCerebras returns the
\* value; rejected, the error is caught at line 563
CerebrasSettles(s) ==
    /\ pc \in {"cerebras_wait", "cerebras_receiving"}
    /\ cerebras' = settle(cerebras, s)
    /\ IF s.ok
       THEN /\ result' = s.value
            /\ pc' = "write"
            /\ UNCHANGED cerebrasError
       ELSE /\ cerebrasError' = s.message
            /\ pc' = "inner_catch"
            /\ UNCHANGED result
    /\ UNCHANGED <<config, args, fs, existingContent, isEdit, fullPrompt,
                   setupError, site, openRouter, fileReads, fileWrites,
                   external, outcome, requests>>

\* lines 533-547
CerebrasEnd ==
    \E resp \in Responses(CerebrasCompletions) :
        CerebrasSettles(Settlement("Cerebras", resp))

\* lines 550-552
CerebrasError == CerebrasSettles(Rejected(RequestFailed))

\* lines 529-531: a chunk of the response arrives.  The timeout of line 555
\* is the socket's inactivity timeout (req.setTimeout), which starts anew
\* with every chunk.
CerebrasData ==
    /\ pc = "cerebras_wait"
    /\ pc' = "cerebras_receiving"
    /\ UNCHANGED <<config, args, fs, handlerVars, chainVars, historyVars,
                   external, outcome>>

\* nothing arrives for a while: the inactivity timeout is running again
CerebrasQuiet ==
    /\ pc = "cerebras_receiving"
    /\ pc' = "cerebras_wait"
    /\ UNCHANGED <<config, args, fs, handlerVars, chainVars, historyVars,
                   external, outcome>>

\* lines 554-558: nothing has arrived for 30 seconds
CerebrasTimeout ==
    /\ pc = "cerebras_wait"
    /\ CerebrasSettles(Rejected(RequestTimeout))

\* lines 563-578
InnerCatch ==
    /\ pc = "inner_catch"
    /\ IF FallbackMissing
       THEN /\ setupError' =
                 <<"Cerebras failed and no OpenRouter fallback available. Cerebras error: ">>
                 \o cerebrasError
            /\ pc' = "outer_catch"
            /\ UNCHANGED site
       ELSE /\ site' = 574
            /\ pc' = "openrouter"
            /\ UNCHANGED setupError
    /\ UNCHANGED <<config, args, fs, handlerVars, fullPrompt, cerebrasError,
                   historyVars, external, outcome>>

\* lines 579-594
OuterCatch ==
    /\ pc = "outer_catch"
    /\ IF FallbackMissing
       THEN /\ HandlerThrows(
                 <<"Cerebras setup failed and no OpenRouter fallback available. Error: ">>
                 \o setupError)
            /\ UNCHANGED site
       ELSE /\ site' = 590
            /\ pc' = "openrouter"
            /\ UNCHANGED outcome
    /\ UNCHANGED <<config, args, fs, handlerVars, fullPrompt, cerebrasError,
                   setupError, historyVars, external>>

----------------------------------------------------------------------------
(* callOpenRouter                                                          *)

\* callOpenRouter without the key test of line 316
OpenRouterKeyTestDropped == FALSE

\* line 316
OpenRouterKeyMissing == ~config.openRouterApiKey

\* line 435
OpenRouterCallFailed(message) == <<"OpenRouter API call failed: ">> \o message

NoOpenRouterKey ==
    <<"No OpenRouter API key available. Set OPENROUTER_API_KEY environment variable.">>

\* lines 313-318
OpenRouterKeyCheck ==
    /\ pc = "openrouter"
    /\ IF OpenRouterKeyMissing
       THEN /\ openRouter' = Append(openRouter,
                 Call(site, "no_key", UNDEFINED,
                      OpenRouterCallFailed(NoOpenRouterKey)))
            /\ OpenRouterFails(OpenRouterCallFailed(NoOpenRouterKey))
       ELSE /\ openRouter' = Append(openRouter,
                 Call(site, "running", UNDEFINED, <<>>))
            /\ pc' = "openrouter_context"
            /\ UNCHANGED <<outcome, cerebrasError, setupError>>
    /\ UNCHANGED <<config, args, fs, handlerVars, fullPrompt, site, cerebras,
                   fileReads, fileWrites, external, requests>>

\* lines 320-353
OpenRouterContext ==
    /\ pc = "openrouter_context"
    /\ fullPrompt' = WithContext(fs, args.file_path, args.prompt,
                                 args.context_files)
    /\ fileReads' = fileReads \o ContextReads
    /\ pc' = "openrouter_existing"
    /\ UNCHANGED <<config, args, fs, handlerVars, cerebrasError, setupError,
                   site, cerebras, openRouter, requests, fileWrites, external,
                   outcome>>

\* lines 355-432: the target is read again and the request is sent; a read
\* that throws is caught at line 434
OpenRouterRequest ==
    /\ pc = "openrouter_existing"
    /\ fileReads' = Append(fileReads, absolutePath(args.file_path))
    /\ LET r == readFileContent(fs, args.file_path)
       IN  IF r.threw
           THEN /\ openRouter' = SetLast("setup", UNDEFINED,
                                         OpenRouterCallFailed(r.message))
                /\ OpenRouterFails(OpenRouterCallFailed(r.message))
                /\ UNCHANGED <<fullPrompt, requests>>
           ELSE /\ fullPrompt' = WithExisting(r.value, fullPrompt)
                /\ openRouter' = SetLast("sent", UNDEFINED, <<>>)
                /\ requests' = Append(requests, "openrouter")
                /\ pc' = "openrouter_wait"
                /\ UNCHANGED <<outcome, cerebrasError, setupError>>
    /\ UNCHANGED <<config, args, fs, handlerVars, site, cerebras, fileWrites,
                   external>>

\* the promise of lines 386-433 settles; its rejection passes the catch of
\* line 434, which the returned promise has left
OpenRouterSettles(s) ==
    /\ pc = "openrouter_wait"
    /\ IF s.ok
       THEN /\ openRouter' = SetLast("resolved", s.value, <<>>)
            /\ OpenRouterReturns(s.value)
            /\ UNCHANGED <<outcome, cerebrasError, setupError>>
       ELSE /\ openRouter' = SetLast("rejected", UNDEFINED, s.message)
            /\ OpenRouterFails(s.message)
            /\ UNCHANGED result
    /\ UNCHANGED <<config, args, fs, existingContent, isEdit, fullPrompt,
                   site, cerebras, fileReads, fileWrites, external, requests>>

\* lines 410-424
OpenRouterEnd ==
    \E resp \in Responses(OpenRouterCompletions) :
        OpenRouterSettles(Settlement("OpenRouter", resp))

\* lines 427-429
OpenRouterError == OpenRouterSettles(Rejected(RequestFailed))

----------------------------------------------------------------------------
(* The handler after generation                                            *)

\* A diff text is the sequence of its lines.  A line is a record: its kind
\* ("header", "hunk" for an "@@ -a,b +c,d @@" line, "add" for "+text", "del"
\* for "-text", "ctx" for " text", "no_newline" for the end-of-file marker,
\* "empty" for an empty line), its text and, for a hunk header, its numbers.
DiffLine(kind, text) ==
    [kind |-> kind, text |-> text,
     oldStart |-> 0, oldLines |-> 0, newStart |-> 0, newLines |-> 0]

\* `@@ -${oldStart},${oldLines} +${newStart},${newLines} @@`
HunkHeader(oldStart, oldLines, newStart, newLines) ==
    [kind |-> "hunk", text |-> <<>>,
     oldStart |-> oldStart, oldLines |-> oldLines,
     newStart |-> newStart, newLines |-> newLines]

\* the null generateGitDiff returns: a diff that no diff text equals
NoDiff == <<DiffLine("null", <<>>)>>

\* filePath.split('/').pop()
FileName(filePath) == filePath[Len(filePath)]

\* createPatch of the diff package compares the contents line by line, a line
\* taken with its line terminator: the last line of a content that does not
\* end in a newline differs from the same line followed by one.
Token(text, eol) == [text |-> text, eol |-> eol]

Tokens(content) ==
    LET lines == split(content)
        n == Len(lines)
    IN  [i \in 1..(n - 1) |-> Token(lines[i], TRUE)]
        \o (IF lines[n] = <<>> THEN <<>> ELSE <<Token(lines[n], FALSE)>>)

Range(seq) == {seq[i] : i \in 1..Len(seq)}

\* length of a longest common subsequence of a and b
RECURSIVE LCSLen(_, _)
LCSLen(a, b) ==
    IF a = <<>> \/ b = <<>> THEN 0
    ELSE IF Head(a) = Head(b) THEN 1 + LCSLen(Tail(a), Tail(b))
    ELSE IF Head(a) \notin Range(b) THEN LCSLen(Tail(a), b)
    ELSE IF Head(b) \notin Range(a) THEN LCSLen(a, Tail(b))
    ELSE LET x == LCSLen(Tail(a), b)
             y == LCSLen(a, Tail(b))
         IN  IF x >= y THEN x ELSE y

Edit(op, token) == [op |-> op, text |-> token.text, eol |-> token.eol]

\* the edit script of the line diff: a shortest sequence of kept ("ctx"),
\* removed ("del") and added ("add") lines that turns a into b, removals
\* before additions where both are possible
RECURSIVE EditScript(_, _)
EditScript(a, b) ==
    IF a = <<>> THEN [i \in 1..Len(b) |-> Edit("add", b[i])]
    ELSE IF b = <<>> THEN [i \in 1..Len(a) |-> Edit("del", a[i])]
    ELSE IF Head(a) = Head(b)
    THEN <<Edit("ctx", Head(a))>> \o EditScript(Tail(a), Tail(b))
    ELSE IF Head(a) \notin Range(b) \/ (Head(b) \in Range(a)
                                        /\ LCSLen(Tail(a), b) >= LCSLen(a, Tail(b)))
    THEN <<Edit("del", Head(a))>> \o EditScript(Tail(a), b)
    ELSE <<Edit("add", Head(b))>> \o EditScript(a, Tail(b))

\* lines of context createPatch puts around a change (its default)
PatchContext == 4

\* the positions of the removed and added lines of a script
Changes(script) == {i \in 1..Len(script) : script[i].op # "ctx"}

\* the change at i is the last of its hunk: the next change, if any, is more
\* than twice the context away
ClosesHunk(script, i) ==
    \A j \in Changes(script) : j > i => j - i - 1 > 2 * PatchContext

Least(S) == CHOOSE x \in S : \A y \in S : x <= y

\* old or new lines among script[lo..hi]
CountLines(script, lo, hi, ops) ==
    Cardinality({k \in lo..hi : script[k].op \in ops})

\* the body lines of script[k..hi]; the marker follows a line that has no
\* line terminator
RECURSIVE HunkBody(_, _, _)
HunkBody(script, k, hi) ==
    IF k > hi THEN <<>>
    ELSE <<DiffLine(script[k].op, script[k].text)>>
         \o (IF script[k].eol THEN <<>>
             ELSE <<DiffLine("no_newline", <<"\\ No newline at end of file">>)>>)
         \o HunkBody(script, k + 1, hi)

\* the hunk of the changes first..last: its header and its body, with the
\* context before and after
Hunk(script, first, last) ==
    LET lo == IF first - PatchContext < 1 THEN 1 ELSE first - PatchContext
        hi == IF last + PatchContext > Len(script)
              THEN Len(script) ELSE last + PatchContext
    IN  <<HunkHeader(1 + CountLines(script, 1, lo - 1, {"ctx", "del"}),
                     CountLines(script, lo, hi, {"ctx", "del"}),
                     1 + CountLines(script, 1, lo - 1, {"ctx", "add"}),
                     CountLines(script, lo, hi, {"ctx", "add"}))>>
        \o HunkBody(script, lo, hi)

\* the hunks whose changes are at positions >= i, in order
RECURSIVE HunksFrom(_, _)
HunksFrom(script, i) ==
    LET later == {j \in Changes(script) : j >= i}
    IN  IF later = {} THEN <<>>
        ELSE LET first == Least(later)
                 last == Least({j \in later : ClosesHunk(script, j)})
             IN  Hunk(script, first, last) \o HunksFrom(script, last + 1)

\* createPatch(fileName, oldStr, newStr, 'a/' + fileName, 'b/' + fileName):
\* the four header lines, the hunks, and the newline that ends the patch
createPatch(fileName, oldStr, newStr) ==
    <<DiffLine("header", <<"Index: ", fileName>>),
      DiffLine("header", <<"=====">>),
      DiffLine("header", <<"--- ", fileName, "\t", "a/", fileName>>),
      DiffLine("header", <<"+++ ", fileName, "\t", "b/", fileName>>)>>
    \o HunksFrom(EditScript(Tokens(oldStr), Tokens(newStr)), 1)
    \o <<DiffLine("empty", <<>>)>>

\* lines 150-151
HunkOffset == 4

\* the correction with the new start left as it was
FixHunkHeaderOldStartOnly(line) ==
    IF line.kind = "hunk"
    THEN [line EXCEPT !.oldStart = @ + HunkOffset]
    ELSE line

\* lines 147-159: a line that matches /^@@ -(\d+),?(\d+)? \+(\d+),?(\d+)? @@$/
\* gets both starts raised, every other line is kept
FixHunkHeader(line) ==
    IF line.kind = "hunk"
    THEN [line EXCEPT !.oldStart = @ + HunkOffset, !.newStart = @ + HunkOffset]
    ELSE line

\* lines 142-145: a first line that starts with "diff --git" is left out
DropGitHeader(patch) ==
    IF patch[1].kind = "header" /\ patch[1].text[1] = "diff --git a/"
    THEN Tail(patch) ELSE patch

\* the creation regime with the line count of the header one too small
NewFileDiffShort(newContent, fileName) ==
    LET newLines == split(newContent)
    IN  <<DiffLine("header", <<"diff --git a/", fileName, " b/", fileName>>),
          DiffLine("header", <<"new file mode 100644">>),
          DiffLine("header", <<"--- /dev/null">>),
          DiffLine("header", <<"+++ b/", fileName>>),
          HunkHeader(0, 0, 1, Len(newLines) - 1)>>
        \o [i \in 1..Len(newLines) |-> DiffLine("add", newLines[i])]

\* lines 112-129
NewFileDiff(newContent, fileName) ==
    LET newLines == split(newContent)
    IN  <<DiffLine("header", <<"diff --git a/", fileName, " b/", fileName>>),
          DiffLine("header", <<"new file mode 100644">>),
          DiffLine("header", <<"--- /dev/null">>),
          DiffLine("header", <<"+++ b/", fileName>>),
          HunkHeader(0, 0, 1, Len(newLines))>>
        \o [i \in 1..Len(newLines) |-> DiffLine("add", newLines[i])]

\* lines 131-162
PatchDiff(oldContent, newContent, fileName) ==
    LET lines == DropGitHeader(createPatch(fileName, oldContent, newContent))
    IN  [i \in 1..Len(lines) |-> FixHunkHeader(lines[i])]

\* generateGitDiff(oldContent, newContent, filePath): null without new
\* content, else the diff of the creation regime (no old content) or of the
\* modification regime
generateGitDiff(oldContent, newContent, filePath) ==
    IF ~Truthy(newContent) THEN NoDiff
    ELSE IF ~Truthy(oldContent)
    THEN NewFileDiff(newContent, FileName(filePath))
    ELSE PatchDiff(oldContent, newContent, FileName(filePath))

\* line 658
cleanResult == cleanCodeResponse(result)

\* the write done twice over (a retry after a write that succeeded)
WriteFileRepeated ==
    /\ pc = "write"
    /\ cleanResult # UNDEFINED
    /\ fs' = [fs EXCEPT ![absolutePath(args.file_path)] = Exists(cleanResult)]
    /\ fileWrites' = fileWrites
                     \o <<FileWrite(absolutePath(args.file_path),
                                    cleanResult, TRUE),
                          FileWrite(absolutePath(args.file_path),
                                    cleanResult, TRUE)>>
    /\ pc' = "respond"
    /\ UNCHANGED <<config, args, handlerVars, chainVars, cerebras, openRouter,
                   fileReads, external, outcome, requests>>

\* lines 657-661, the write succeeds
WriteFile ==
    /\ pc = "write"
    /\ cleanResult # UNDEFINED
    /\ fs' = [fs EXCEPT ![absolutePath(args.file_path)] = Exists(cleanResult)]
    /\ fileWrites' = Append(fileWrites,
                            FileWrite(absolutePath(args.file_path),
                                      cleanResult, TRUE))
    /\ pc' = "respond"
    /\ UNCHANGED <<config, args, handlerVars, chainVars, cerebras, openRouter,
                   fileReads, external, outcome, requests>>

\* a failed write that is not reported: the handler goes on to its result
WriteFileFailsSilently ==
    /\ pc = "write"
    /\ fileWrites' = Append(fileWrites,
                            FileWrite(absolutePath(args.file_path),
                                      cleanResult, FALSE))
    /\ pc' = "respond"
    /\ UNCHANGED <<config, args, fs, handlerVars, chainVars, cerebras,
                   openRouter, requests, fileReads, external, outcome>>

\* lines 657-661 and 268-270, the write fails: fs.writeFile rejects data that
\* is undefined before it opens the file; any other failure (of mkdir, of the
\* open, of the write itself) leaves the file as it was or truncated
WriteFileFails ==
    /\ pc = "write"
    /\ \E truncated \in BOOLEAN :
         /\ truncated => (cleanResult # UNDEFINED)
         /\ fs' = IF truncated
                  THEN [fs EXCEPT ![absolutePath(args.file_path)] = Exists(<<>>)]
                  ELSE fs
    /\ fileWrites' = Append(fileWrites,
                            FileWrite(absolutePath(args.file_path),
                                      cleanResult, FALSE))
    /\ HandlerThrows(WriteError(IF cleanResult = UNDEFINED
                                THEN "ERR_INVALID_ARG_TYPE" ELSE "EIO"))
    /\ UNCHANGED <<config, args, handlerVars, chainVars, cerebras, openRouter,
                   fileReads, external, requests>>

\* lines 666-702: the diff the result carries, null when there is none
ResponseDiff ==
    IF isEdit /\ Truthy(existingContent)
    THEN generateGitDiff(cleanCodeResponse(existingContent), cleanResult,
                         args.file_path)
    ELSE IF ~isEdit
    THEN generateGitDiff(NULL, cleanResult, args.file_path)
    ELSE NoDiff

\* The glyphs of lines 676-678 (a magnifying glass, a cross mark, a check
\* mark), which a TLA+ string cannot hold.
GlyphHunk == "[magnifying glass]"
GlyphRemoved == "[cross mark]"
GlyphAdded == "[check mark]"

\* The line of the diff text a line record stands for, as the sequence of
\* its characters.  A header line is the sequence of its fragments; none of
\* the header lines starts with "@@ ", "- ", "+ " or two blanks.
LineText(line) ==
    CASE line.kind = "add" -> <<"+">> \o line.text
      [] line.kind = "del" -> <<"-">> \o line.text
      [] line.kind = "ctx" -> <<SP>> \o line.text
      [] line.kind = "hunk" ->
           <<"@", "@", SP, "-", ToString(line.oldStart), ",",
             ToString(line.oldLines), SP, "+", ToString(line.newStart), ",",
             ToString(line.newLines), SP, "@", "@">>
      [] OTHER -> line.text

StartsWith(text, prefix) ==
    Len(text) >= Len(prefix) /\ SubSeq(text, 1, Len(prefix)) = prefix

\* text.replace(/^prefix/gm, by) on one line
ReplacePrefix(text, prefix, by) ==
    IF StartsWith(text, prefix)
    THEN by \o SubSeq(text, Len(prefix) + 1, Len(text))
    ELSE text

\* lines 675-679 and 691-695 on one line: the four replacements in turn
cursorFriendlyLine(text) ==
    ReplacePrefix(
        ReplacePrefix(
            ReplacePrefix(
                ReplacePrefix(text, <<"@", "@", SP>>, <<GlyphHunk, SP>>),
                <<"-", SP>>, <<GlyphRemoved, SP>>),
            <<"+", SP>>, <<GlyphAdded, SP>>),
        <<SP, SP>>, <<SP, SP, SP>>)

\* a line of the text the result carries: the line record it comes from and,
\* as shown, the characters the caller gets
ShownLine(line, shown) ==
    [kind |-> line.kind, text |-> line.text,
     oldStart |-> line.oldStart, oldLines |-> line.oldLines,
     newStart |-> line.newStart, newLines |-> line.newLines,
     shown |-> shown]

\* lines 675-684 and 691-700: the diff with the replacements made, between
\* the lines of the "diff" fence
cursorFriendlyDiff(diff) ==
    <<ShownLine(DiffLine("fence", <<>>), <<BQ, BQ, BQ, "diff">>)>>
    \o [i \in 1..Len(diff) |->
            ShownLine(diff[i], cursorFriendlyLine(LineText(diff[i])))]
    \o <<ShownLine(DiffLine("fence", <<>>), <<BQ, BQ, BQ>>)>>

\* lines 663-706
Respond ==
    /\ pc = "respond"
    /\ outcome' = [kind |-> "result",
                   content |-> IF ResponseDiff # NoDiff
                               THEN <<cursorFriendlyDiff(ResponseDiff)>>
                               ELSE <<>>,
                   message |-> <<>>]
    /\ pc' = "done"
    /\ UNCHANGED <<config, args, fs, handlerVars, chainVars, historyVars,
                   external>>

----------------------------------------------------------------------------
(* The environment                                                         *)

\* Another process changes the target file while the call runs.  A change
\* shows only at the call's next file access, so it is taken right before one.
ExternalChange ==
    /\ pc \in {"read", "cerebras_context", "cerebras_existing",
               "openrouter_context", "openrouter_existing", "write"}
    /\ external < MaxExternal
    /\ \E st \in TargetStates \ {fs[TargetPath]} :
         fs' = [fs EXCEPT ![TargetPath] = st]
    /\ external' = external + 1
    /\ UNCHANGED <<config, args, pc, handlerVars, chainVars, historyVars,
                   outcome>>

----------------------------------------------------------------------------

Next ==
    \/ ValidateArguments
    \/ ReadExisting
    \/ CerebrasKeyCheck
    \/ CerebrasContext
    \/ CerebrasRequest
    \/ CerebrasEnd
    \/ CerebrasError
    \/ CerebrasData
    \/ CerebrasQuiet
    \/ CerebrasTimeout
    \/ InnerCatch
    \/ OuterCatch
    \/ OpenRouterKeyCheck
    \/ OpenRouterContext
    \/ OpenRouterRequest
    \/ OpenRouterEnd
    \/ OpenRouterError
    \/ WriteFile
    \/ WriteFileFails
    \/ Respond
    \/ ExternalChange

Spec == Init /\ [][Next]_vars

\* The steps the call takes by itself: the event loop runs every continuation
\* that is ready, and a file operation that was started completes.
CallStep ==
    \/ ValidateArguments
    \/ ReadExisting
    \/ CerebrasKeyCheck
    \/ CerebrasContext
    \/ CerebrasRequest
    \/ InnerCatch
    \/ OuterCatch
    \/ OpenRouterKeyCheck
    \/ OpenRouterContext
    \/ OpenRouterRequest
    \/ WriteFile
    \/ WriteFileFails
    \/ Respond

\* The call under fair scheduling: its own steps are taken; time passes, so
\* a silent socket is seen to be silent and the timer of line 555 fires when
\* the silence lasts; every request to the secondary gets a response or a
\* network error.  Nothing is assumed of what the primary sends or when.
LiveSpec ==
    /\ Spec
    /\ WF_vars(CallStep)
    /\ WF_vars(CerebrasQuiet)
    /\ WF_vars(CerebrasTimeout)
    /\ WF_vars(OpenRouterEnd \/ OpenRouterError)

----------------------------------------------------------------------------
(* The primary's request after its promise is settled                      *)

\* events of the primary's request raised after its promise was settled
MaxLate == 2

\* An event of the primary's request is raised when the promise of lines
\* 511-562 is settled already: its handler runs and calls resolve or reject
\* as it would have.  The handlers do nothing else to the call's state (the
\* timeout's req.destroy() acts on a request that is over).
CerebrasLate(event, s) ==
    /\ cerebras.status \in {"resolved", "rejected"}
    /\ Len(cerebras.late) < MaxLate
    /\ cerebras' = [settle(cerebras, s) EXCEPT !.late = Append(@, event)]
    /\ UNCHANGED <<config, args, fs, pc, handlerVars, chainVars, openRouter,
                   requests, fileReads, fileWrites, external, outcome>>

\* lines 533-547, the response ends after the timeout or an error
CerebrasLateEnd ==
    \E resp \in Responses(CerebrasCompletions) :
        CerebrasLate("end", Settlement("Cerebras", resp))

\* lines 550-552, among others the error req.destroy() of line 556 raises
CerebrasLateError == CerebrasLate("error", Rejected(RequestFailed))

\* lines 554-558, the socket is idle for 30 seconds after the response
CerebrasLateTimeout == CerebrasLate("timeout", Rejected(RequestTimeout))

LateNext ==
    \/ Next
    \/ CerebrasLateEnd
    \/ CerebrasLateError
    \/ CerebrasLateTimeout

\* calls with the primary's key set, on a target that exists or not
LateInit ==
    /\ config \in {c \in Configs : c.cerebrasApiKey}
    /\ args = [file_path |-> TargetPath, prompt |-> Prompt,
               context_files |-> <<>>]
    /\ fs \in [Files -> {ENOENT, Exists(<<"o", "1">>)}]
    /\ fs[ContextPath] = ENOENT
    /\ fs[OtherContextPath] = ENOENT
    /\ pc = "validate"
    /\ existingContent = NULL
    /\ isEdit = FALSE
    /\ fullPrompt = <<>>
    /\ cerebrasError = <<>>
    /\ setupError = <<>>
    /\ site = 0
    /\ result = UNDEFINED
    /\ cerebras = Provider("none", UNDEFINED, <<>>)
    /\ openRouter = <<>>
    /\ requests = <<>>
    /\ fileReads = <<>>
    /\ fileWrites = <<>>
    /\ external = 0
    /\ outcome = NoOutcome

LateSpec == LateInit /\ [][LateNext]_vars

----------------------------------------------------------------------------
(* The write call with two context files                                   *)

\* Calls that name two context files besides the target, each of which is
\* read, does not exist or cannot be read.
ContextRequests ==
    [file_path : {TargetPath},
     prompt : {Prompt},
     context_files : {<<ContextPath, OtherContextPath>>,
                      <<OtherContextPath, TargetPath, ContextPath>>}]

ContextInit ==
    /\ config \in Configs
    /\ args \in ContextRequests
    /\ fs \in [Files -> TargetStates \cup ContextStates \cup OtherContextStates]
    /\ fs[TargetPath] \in {ENOENT, Exists(<<"o", "1">>)}
    /\ fs[ContextPath] \in ContextStates
    /\ fs[OtherContextPath] \in OtherContextStates
    /\ pc = "validate"
    /\ existingContent = NULL
    /\ isEdit = FALSE
    /\ fullPrompt = <<>>
    /\ cerebrasError = <<>>
    /\ setupError = <<>>
    /\ site = 0
    /\ result = UNDEFINED
    /\ cerebras = Provider("none", UNDEFINED, <<>>)
    /\ openRouter = <<>>
    /\ requests = <<>>
    /\ fileReads = <<>>
    /\ fileWrites = <<>>
    /\ external = 0
    /\ outcome = NoOutcome

ContextSpec == ContextInit /\ [][Next]_vars

----------------------------------------------------------------------------
(* generateGitDiff and cleanCodeResponse on their own                      *)

\* The functions are called on arguments drawn from bounded sets: args holds
\* the arguments of the call, outcome what it returned; the variables of the
\* write call are at rest.
AtRest ==
    /\ config = [cerebrasApiKey |-> FALSE, openRouterApiKey |-> FALSE]
    /\ fs = [f \in Files |-> ENOENT]
    /\ existingContent = NULL
    /\ isEdit = FALSE
    /\ fullPrompt = <<>>
    /\ cerebrasError = <<>>
    /\ setupError = <<>>
    /\ site = 0
    /\ result = UNDEFINED
    /\ cerebras = Provider("none", UNDEFINED, <<>>)
    /\ openRouter = <<>>
    /\ requests = <<>>
    /\ fileReads = <<>>
    /\ fileWrites = <<>>
    /\ external = 0
    /\ outcome = NoOutcome

Returned(value) == [kind |-> "returned", content |-> <<value>>, message |-> <<>>]

\* lines of the longest content, and lines changed between old and new
MaxLines == 11
MaxChanges == 2

\* the one-character texts of the lines 1, 2, ... of a content
LineChars == <<"1", "2", "3", "4", "5", "6", "7", "8", "9", "e", "f", "g",
               "h", "i", "j", "k">>

\* the lines of "edit" applied to the lines i..n at the positions in changed
RECURSIVE EditedLines(_, _, _, _)
EditedLines(i, n, changed, edit) ==
    IF i > n THEN <<>>
    ELSE (IF i \notin changed THEN <<<<LineChars[i]>>>>
          ELSE CASE edit = "replace" -> <<<<LineChars[i], "!">>>>
                 [] edit = "insert" -> <<<<LineChars[i]>>, <<LineChars[i], "+">>>>
                 [] OTHER -> <<>>)
         \o EditedLines(i + 1, n, changed, edit)

\* a content of the given lines, with or without a newline at its end
Content(lines, eol) == join(lines) \o (IF eol /\ lines # <<>> THEN <<NL>> ELSE <<>>)

ChangeSets(n) == {c \in SUBSET (1..n) : Cardinality(c) <= MaxChanges}

\* old contents of 1..MaxLines lines with the contents a few replacements,
\* insertions or deletions make of them; no old content with a new one; an
\* old content without a new one
DiffArguments ==
    {[oldContent |-> Content(EditedLines(1, n[1], {}, "replace"), e[1]),
      newContent |-> Content(EditedLines(1, n[1], n[2], edit), e[2]),
      filePath |-> TargetPath] :
        n \in {m \in (1..MaxLines) \X (SUBSET (1..MaxLines)) : m[2] \in ChangeSets(m[1])},
        e \in BOOLEAN \X BOOLEAN,
        edit \in {"replace", "insert", "delete"}}
    \cup {[oldContent |-> old,
           newContent |-> Content(EditedLines(1, n, {}, "replace"), e),
           filePath |-> TargetPath] :
            old \in {NULL, <<>>}, n \in 1..MaxLines, e \in BOOLEAN}
    \cup {[oldContent |-> old, newContent |-> new, filePath |-> TargetPath] :
            old \in {NULL, <<"1">>},
            new \in {NULL, UNDEFINED, <<>>, <<NL>>, <<NL, "1", NL, NL>>}}

DiffInit ==
    /\ args \in DiffArguments
    /\ pc = "generateGitDiff"
    /\ AtRest

GenerateGitDiff ==
    /\ pc = "generateGitDiff"
    /\ outcome' = Returned(generateGitDiff(args.oldContent, args.newContent,
                                           args.filePath))
    /\ pc' = "done"
    /\ UNCHANGED <<config, args, fs, handlerVars, chainVars, historyVars,
                   external>>

DiffNext == GenerateGitDiff

DiffSpec == DiffInit /\ [][DiffNext]_vars

\* pieces of the longest response
MaxPieces == 6

\* what a response is made of: fences, newlines, blanks, a letter, a digit
\* and the number sign
Pieces == {<<BQ, BQ, BQ>>, <<NL>>, <<SP>>, <<"a">>, <<"1">>, <<"#">>}

RECURSIVE Flatten(_)
Flatten(pieces) ==
    IF pieces = <<>> THEN <<>> ELSE Head(pieces) \o Flatten(Tail(pieces))

CleanArguments ==
    {[response |-> Flatten(pieces)] :
        pieces \in UNION {[1..n -> Pieces] : n \in 0..MaxPieces}}
    \cup {[response |-> NULL], [response |-> UNDEFINED]}

CleanInit ==
    /\ args \in CleanArguments
    /\ pc = "cleanCodeResponse"
    /\ AtRest

CleanCodeResponse ==
    /\ pc = "cleanCodeResponse"
    /\ outcome' = Returned(cleanCodeResponse(args.response))
    /\ pc' = "done"
    /\ UNCHANGED <<config, args, fs, handlerVars, chainVars, historyVars,
                   external>>

CleanNext == CleanCodeResponse

CleanSpec == CleanInit /\ [][CleanNext]_vars

----------------------------------------------------------------------------
(* The removal wizard (handleRemoval and the remove...Setup functions)     *)

\* the entries of an editor's server section: ours under both names, and
\* one of another server
CerebrasServers == {"cerebras-mcp", "cerebras-code"}
ServerNames == CerebrasServers \cup {"other-server"}

\* What a configuration file parses to.  hasSection: the object has the
\* editor's server section (mcpServers, servers or mcp); servers: the names
\* of the entries in it; settings: the other top-level keys but permissions;
\* permissions: "none" without the key, "wildcard" for
\* {allowed_tools: ["*"]}, "wildcard_and_more" for that with further keys in
\* permissions, "listed" for any other value.
Config(hasSection, servers, settings, permissions) ==
    [hasSection |-> hasSection, servers |-> servers, settings |-> settings,
     permissions |-> permissions]

EmptyConfig == Config(FALSE, {}, {}, "none")

\* Object.keys(existingConfig).length === 0
IsEmptyConfig(c) == ~c.hasSection /\ c.settings = {} /\ c.permissions = "none"

\* a configuration file: it parses to a configuration, it does not exist, or
\* it exists and JSON.parse throws on its text.  fs.unlink(configPath) leaves
\* NoConfigFile; after fs.writeFile(configPath, JSON.stringify(c, null, 2))
\* the file parses to c, so it is ConfigFile(c).
ConfigFile(c) == [code |-> "OK", config |-> c]
NoConfigFile == [code |-> "ENOENT", config |-> EmptyConfig]
InvalidConfigFile == [code |-> "INVALID", config |-> EmptyConfig]

ConfigFiles ==
    {ConfigFile(Config(TRUE, servers, settings, permissions)) :
        servers \in SUBSET ServerNames,
        settings \in SUBSET {"inputs"},
        permissions \in {"none", "wildcard", "wildcard_and_more", "listed"}}
    \cup {ConfigFile(Config(FALSE, {}, settings, permissions)) :
            settings \in SUBSET {"inputs"},
            permissions \in {"none", "wildcard", "wildcard_and_more", "listed"}}
    \cup {NoConfigFile, InvalidConfigFile}

\* lines 123-160 of removeCursorSetup: a file that cannot be read or parsed
\* is left alone (the catch of line 158)
removeCursorSetup(file) ==
    IF file.code # "OK" THEN file
    ELSE LET c == file.config
             hasChanges == c.hasSection /\ c.servers \cap CerebrasServers # {}
             rest == c.servers \ CerebrasServers
             left == [c EXCEPT !.servers = rest, !.hasSection = (rest # {})]
         IN  IF ~hasChanges THEN file
             ELSE IF IsEmptyConfig(left) THEN NoConfigFile
             ELSE ConfigFile(left)

\* lines 195-232 of removeClineSetup: the same steps on Cline's file
removeClineSetup(file) ==
    IF file.code # "OK" THEN file
    ELSE LET c == file.config
             hasChanges == c.hasSection /\ c.servers \cap CerebrasServers # {}
             rest == c.servers \ CerebrasServers
             left == [c EXCEPT !.servers = rest, !.hasSection = (rest # {})]
         IN  IF ~hasChanges THEN file
             ELSE IF IsEmptyConfig(left) THEN NoConfigFile
             ELSE ConfigFile(left)

\* lines 261-293 of removeVSCodeSetup
removeVSCodeSetup(file) ==
    IF file.code # "OK" THEN file
    ELSE LET c == file.config
             hasChanges == c.hasSection /\ c.servers \cap CerebrasServers # {}
             rest == c.servers \ CerebrasServers
         IN  IF ~hasChanges THEN file
             ELSE IF rest = {} THEN NoConfigFile
             ELSE ConfigFile([c EXCEPT !.servers = rest])

\* lines 318-364 of removeCrushSetup
removeCrushSetup(file) ==
    IF file.code # "OK" THEN file
    ELSE LET c == file.config
             rest == c.servers \ CerebrasServers
             wildcard == c.permissions \in {"wildcard", "wildcard_and_more"}
             removed == (c.hasSection /\ c.servers \cap CerebrasServers # {})
                        \/ wildcard
             left == [c EXCEPT !.servers = rest,
                               !.hasSection = c.hasSection /\ rest # {},
                               !.permissions = IF wildcard THEN "none" ELSE @]
         IN  IF ~removed THEN file
             ELSE IF IsEmptyConfig(left) THEN NoConfigFile
             ELSE ConfigFile(left)

\* the answers to the menu of line 29 that name one editor with a
\* configuration file, each with the state of that editor's file
RemovalArguments ==
    [removeChoice : {"2", "3", "4", "5"}, file : ConfigFiles]

RemovalInit ==
    /\ args \in RemovalArguments
    /\ pc = "handleRemoval"
    /\ AtRest

\* lines 31-53: the file of the chosen editor after its removal function
HandleRemoval ==
    /\ pc = "handleRemoval"
    /\ outcome' = Returned(CASE args.removeChoice = "2" -> removeCursorSetup(args.file)
                             [] args.removeChoice = "3" -> removeClineSetup(args.file)
                             [] args.removeChoice = "4" -> removeVSCodeSetup(args.file)
                             [] OTHER -> removeCrushSetup(args.file))
    /\ pc' = "done"
    /\ UNCHANGED <<config, args, fs, handlerVars, chainVars, historyVars,
                   external>>

RemovalNext == HandleRemoval

RemovalSpec == RemovalInit /\ [][RemovalNext]_vars

----------------------------------------------------------------------------
(* Properties                                                              *)

Count(seq, x) == Cardinality({i \in 1..Len(seq) : seq[i] = x})

\* part occurs in message as a run of consecutive fragments
Contains(message, part) ==
    \E i \in 0..(Len(message) - Len(part)) :
        SubSeq(message, i + 1, i + Len(part)) = part

Target == absolutePath(TargetPath)

\* the secondary's call that ran last resolved with a completion
SecondarySucceeded ==
    /\ openRouter # <<>>
    /\ LastCall.status = "resolved"
    /\ LastCall.value # UNDEFINED

\* what callCerebras returns and what the handler writes is the secondary's
\* completion, sanitized; the call ends in a result unless the write fails
SecondaryOutputUsed ==
    /\ LastCall.value \in {cleanCodeResponse(c) : c \in OpenRouterCompletions}
    /\ result = LastCall.value
    /\ pc \in {"write", "respond", "done"}
    /\ \A i \in 1..Len(fileWrites) :
         /\ fileWrites[i].path = Target
         /\ fileWrites[i].content = cleanCodeResponse(LastCall.value)
    /\ pc = "done" =>
         \/ /\ outcome.kind = "result"
            /\ fileWrites = <<FileWrite(Target,
                                        cleanCodeResponse(LastCall.value), TRUE)>>
         \/ /\ outcome.kind = "error"
            /\ fileWrites = <<FileWrite(Target,
                                        cleanCodeResponse(LastCall.value), FALSE)>>

\* C1: within one write call each provider is sent at most one request, the
\* primary at most one and the secondary at most one, whatever the outcomes.
C1_EachProviderAtMostOnce ==
    /\ Count(requests, "cerebras") <= 1
    /\ Count(requests, "openrouter") <= 1

\* C2: when the primary has a key and its request ends in a network error, a
\* timeout, a non-200 status or an unparseable body, and the secondary has a
\* key, callOpenRouter is called from the catch of line 563 and passes its key
\* test; when the secondary resolves with a completion, callCerebras returns
\* it, it is what the handler writes, and the call ends in a result unless
\* the write itself fails.
C2_FailoverOnPrimaryFailure ==
    (/\ config.cerebrasApiKey
     /\ config.openRouterApiKey
     /\ cerebras.status = "rejected"
     /\ cerebras.cause \in {RequestFailed, RequestTimeout,
                            ParseFailure("SyntaxError"), ParseFailure("TypeError"),
                            ApiError("Cerebras", 500), ApiError("Cerebras", HTTP_OK)})
    => /\ pc # "inner_catch" =>
            \/ pc = "openrouter" /\ site = 574 /\ openRouter = <<>>
            \/ /\ openRouter # <<>>
               /\ openRouter[1].site = 574
               /\ openRouter[1].status # "no_key"
       /\ SecondarySucceeded => SecondaryOutputUsed

C2_Witness ==
    /\ pc = "done"
    /\ cerebras.status = "rejected"
    /\ cerebras.cause = RequestTimeout
    /\ requests = <<"cerebras", "openrouter">>
    /\ outcome.kind = "result"
    /\ fs[Target] = Exists(<<"s", "2">>)

\* C3: when the primary has no key and the secondary has one and resolves
\* with a completion, no request goes to the primary, callCerebras returns
\* the secondary's sanitized completion, that is what the handler writes, and
\* the call ends in a result unless the write itself fails.
C3_SecondaryOnlyWhenPrimaryUnconfigured ==
    (/\ ~config.cerebrasApiKey
     /\ config.openRouterApiKey
     /\ SecondarySucceeded)
    => /\ cerebras.status = "skipped"
       /\ Count(requests, "cerebras") = 0
       /\ SecondaryOutputUsed

C3_Witness ==
    /\ pc = "done"
    /\ ~config.cerebrasApiKey
    /\ requests = <<"openrouter">>
    /\ outcome.kind = "result"
    /\ fs[Target] = Exists(<<"s", "1">>)

\* C4: the chain is primary, then secondary: callOpenRouter is called, and a
\* request sent to the secondary, only when the primary has no key or has
\* failed (its request rejected, or its preparation thrown); no request goes
\* to the primary after one went to the secondary; and once the primary has
\* resolved the secondary is never called.
C4_PrimaryThenSecondary ==
    /\ (openRouter # <<>> \/ Count(requests, "openrouter") > 0) =>
         \/ ~config.cerebrasApiKey
         \/ cerebras.status \in {"setup", "rejected"}
    /\ \A i \in 1..Len(requests) : \A j \in 1..Len(requests) :
         (requests[i] = "openrouter" /\ requests[j] = "cerebras") => j < i
    /\ cerebras.status \in {"sent", "resolved"} =>
         /\ openRouter = <<>>
         /\ Count(requests, "openrouter") = 0

C4_Witness ==
    /\ pc = "done"
    /\ config.openRouterApiKey
    /\ cerebras.status = "resolved"
    /\ requests = <<"cerebras">>
    /\ outcome.kind = "result"

\* the cause of the primary's failure: its missing key (reported at line
\* 444) or the message its preparation or its request failed with
PrimaryCause ==
    IF cerebras.status = "skipped" THEN <<"No Cerebras API key found">>
    ELSE cerebras.cause

PrimaryFailed == cerebras.status \in {"skipped", "setup", "rejected"}

\* the secondary failed for good: it has no key, or no call of it resolved
SecondaryFailed ==
    \/ ~config.openRouterApiKey
    \/ /\ openRouter # <<>>
       /\ \A i \in 1..Len(openRouter) : openRouter[i].status # "resolved"
       /\ pc = "done"

\* the message names the secondary's failure: its missing key, or the
\* message its last call failed with
NamesSecondaryCause(message) ==
    IF ~config.openRouterApiKey
    THEN \/ Contains(message, NoOpenRouterKey)
         \/ Contains(message,
              <<"Cerebras failed and no OpenRouter fallback available. Cerebras error: ">>)
         \/ Contains(message,
              <<"Cerebras setup failed and no OpenRouter fallback available. Error: ">>)
    ELSE Contains(message, LastCall.cause)

\* C5: when both providers fail (the primary has no key or fails, the
\* secondary has no key or fails), the call fails and the message answered
\* holds the primary's failure cause and the secondary's failure cause.
C5_BothCausesInMessage ==
    (pc = "done" /\ PrimaryFailed /\ SecondaryFailed)
    => /\ outcome.kind = "error"
       /\ Contains(outcome.message, PrimaryCause)
       /\ NamesSecondaryCause(outcome.message)

\* C6: no request is ever sent to a provider whose key is absent, primary or
\* secondary; with both keys absent the call fails without any request.
C6_NoKeyNoRequest ==
    /\ ~config.cerebrasApiKey => Count(requests, "cerebras") = 0
    /\ ~config.openRouterApiKey => Count(requests, "openrouter") = 0
    /\ (~config.cerebrasApiKey /\ ~config.openRouterApiKey /\ pc = "done")
       => (outcome.kind = "error" /\ requests = <<>>)

C6_Witness ==
    /\ pc = "done"
    /\ ~config.cerebrasApiKey
    /\ ~config.openRouterApiKey
    /\ openRouter # <<>>
    /\ LastCall.status = "no_key"
    /\ requests = <<>>
    /\ outcome.kind = "error"

InvalidRequest == ~Truthy(args.file_path) \/ ~Truthy(args.prompt)

\* C7: a call whose file path or prompt is missing or empty fails at once:
\* its only step is the validation, which answers an error; no file is
\* read, no provider is called and no file is written.
C7_InvalidRequestFailsFirst ==
    InvalidRequest
    => /\ pc \in {"validate", "done"}
       /\ pc = "done" => outcome.kind = "error"
       /\ fileReads = <<>>
       /\ fileWrites = <<>>
       /\ requests = <<>>
       /\ openRouter = <<>>
       /\ cerebras.status = "none"

C7_Witness ==
    /\ pc = "done"
    /\ args.file_path = <<>>
    /\ Truthy(args.prompt)
    /\ outcome.kind = "error"
    /\ outcome.message = <<"Failed to write code: ",
                           "file_path is required for write tool">>

\* the step of the handler's read of the target
ReadStep == pc = "read" /\ pc' # "read"

\* C8: the handler's read of the target decides edit or create: a file that
\* does not exist makes the call a creation and no error; a file that is
\* read makes it an edit of that content; any other read failure ends the
\* call with that error, with no provider called and nothing written, and
\* an ended call takes no further step.
C8_ReadDecidesEditOrCreate ==
    /\ [][ReadStep =>
            /\ fileReads' = <<Target>>
            /\ fs[Target].code = "ENOENT" =>
                 /\ pc' = "cerebras"
                 /\ ~isEdit'
                 /\ existingContent' = NULL
                 /\ outcome' = NoOutcome
            /\ fs[Target].code = "OK" =>
                 /\ pc' = "cerebras"
                 /\ isEdit'
                 /\ existingContent' = fs[Target].content
                 /\ outcome' = NoOutcome
            /\ fs[Target].code \notin {"OK", "ENOENT"} =>
                 /\ pc' = "done"
                 /\ outcome'.kind = "error"
                 /\ outcome'.message =
                      <<"Failed to write code: ">> \o ReadError(fs[Target])
                 /\ requests' = <<>>
                 /\ openRouter' = <<>>
                 /\ fileWrites' = <<>>]_vars
    /\ [][pc # "done"]_vars

C8_Witness ==
    /\ pc = "done"
    /\ fileReads = <<Target>>
    /\ fs[Target] = EACCES
    /\ outcome.message = <<"Failed to write code: ">> \o ReadError(EACCES)
    /\ requests = <<>>
    /\ fileWrites = <<>>

\* generation failed: the call is over, the primary had no key or failed, and
\* the secondary was not called for want of a key or its last call failed
ProvidersExhausted ==
    /\ pc = "done"
    /\ PrimaryFailed
    /\ \/ openRouter = <<>>
       \/ LastCall.status \in {"no_key", "setup", "rejected"}

\* C9: when generation fails the call fails and has written nothing: its
\* history of writes is empty, and the file system changes only at the
\* handler's write step or by another process.
C9_NoWriteOnGenerationFailure ==
    /\ [](ProvidersExhausted => (outcome.kind = "error" /\ fileWrites = <<>>))
    /\ [][fs' # fs => (pc = "write" \/ external' = external + 1)]_vars

C9_Witness ==
    /\ ProvidersExhausted
    /\ cerebras.status = "rejected"
    /\ Len(openRouter) = 2
    /\ outcome.kind = "error"
    /\ fs[Target] = Exists(<<"o", "1">>)

WriteFailed == \E i \in 1..Len(fileWrites) : ~fileWrites[i].ok

\* C10: when the write fails although generation succeeded, the call
\* answers an error that names the write failure, never a result.
C10_WriteFailureIsAnError ==
    WriteFailed
    => /\ pc = "done"
       /\ outcome.kind = "error"
       /\ Contains(outcome.message, <<"Failed to write file: ">>)
       /\ \/ cerebras.status = "resolved"
          \/ openRouter # <<>> /\ LastCall.status = "resolved"

C10_Witness ==
    /\ WriteFailed
    /\ cerebras.status = "resolved"
    /\ cerebras.value = <<"p", "1">>
    /\ outcome.kind = "error"
    /\ outcome.message = <<"Failed to write code: ">> \o WriteError("EIO")

\* C11: a call that ends in a result has written exactly once, to the file
\* at the requested path and the sanitized content; no step of the call
\* changes any other file (the context files included), and the target
\* changes only at the handler's write step or by another process.
C11_OneFileWrittenOnce ==
    /\ [](outcome.kind = "result" =>
            fileWrites = <<FileWrite(absolutePath(args.file_path),
                                     cleanResult, TRUE)>>)
    /\ [][/\ \A f \in Files :
               (Truthy(args.file_path) /\ f = absolutePath(args.file_path))
               \/ fs'[f] = fs[f]
          /\ fs' # fs => (pc = "write" \/ external' = external + 1)
          /\ Len(fileWrites') > Len(fileWrites) => pc = "write"]_vars

C11_Witness ==
    /\ pc = "done"
    /\ outcome.kind = "result"
    /\ args.context_files = <<TargetPath, ContextPath>>
    /\ fileReads = <<Target, absolutePath(ContextPath), Target>>
    /\ fileWrites = <<FileWrite(Target, <<"p", "1">>, TRUE)>>
    /\ fs[ContextPath] = Exists(<<"a", "1">>)
    /\ fs[Target] = Exists(<<"p", "1">>)

\* C13: every write call eventually ends, in a result or in an error.
C13_EveryCallEnds == <>(pc = "done")

\* the diff generateGitDiff returned
ReturnedDiff == outcome.content[1]

HunkLines(diff) == {i \in 1..Len(diff) : diff[i].kind = "hunk"}

\* C14: called on an old content that is present and a new content equal to
\* it, generateGitDiff returns null, no diff text.
C14_NoDiffWhenIdentical ==
    (/\ pc = "done"
     /\ Truthy(args.oldContent)
     /\ args.oldContent = args.newContent)
    => ReturnedDiff = NoDiff

\* C15: called without old content (null or empty) on a non-empty new
\* content N, generateGitDiff returns a diff with exactly one hunk; its
\* header is "@@ -0,0 +1,L @@" unshifted, L being the number of lines of N
\* as N.split('\n') counts them, and the L lines after it, the last of the
\* diff, are the lines of N in order, each as an added line; before the
\* header come header lines only.
C15_NewFileIsOneHunkOfAddedLines ==
    (/\ pc = "done"
     /\ ~Truthy(args.oldContent)
     /\ Truthy(args.newContent))
    => LET diff == ReturnedDiff
           lines == split(args.newContent)
           L == Len(lines)
       IN  /\ diff # NoDiff
           /\ Cardinality(HunkLines(diff)) = 1
           /\ \A h \in HunkLines(diff) :
                /\ diff[h] = HunkHeader(0, 0, 1, L)
                /\ \A i \in 1..(h - 1) : diff[i].kind = "header"
                /\ Len(diff) = h + L
                /\ \A i \in 1..L : diff[h + i] = DiffLine("add", lines[i])

C15_Witness ==
    /\ pc = "done"
    /\ args.oldContent = NULL
    /\ args.newContent = <<"1", NL, "2", NL, "3">>
    /\ Len(ReturnedDiff) = 8
    /\ ReturnedDiff[5] = HunkHeader(0, 0, 1, 3)
    /\ ReturnedDiff[8] = DiffLine("add", <<"3">>)

\* C17: in the modification regime (old and new content both non-empty) the
\* diff returned is the patch of createPatch line for line, but for every
\* hunk header, whose old start and new start are each 4 more than in the
\* patch and whose line counts are those of the patch.
C17_EveryHunkStartShiftedByFour ==
    (/\ pc = "done"
     /\ Truthy(args.oldContent)
     /\ Truthy(args.newContent))
    => LET diff == ReturnedDiff
           patch == createPatch(FileName(args.filePath), args.oldContent,
                                args.newContent)
       IN  /\ Len(diff) = Len(patch)
           /\ \A i \in 1..Len(patch) :
                IF patch[i].kind = "hunk"
                THEN diff[i] = HunkHeader(patch[i].oldStart + 4,
                                          patch[i].oldLines,
                                          patch[i].newStart + 4,
                                          patch[i].newLines)
                ELSE diff[i] = patch[i]

\* two hunks: the first and the last of eleven lines replaced
C17_Witness ==
    /\ pc = "done"
    /\ Len(split(args.oldContent)) = 11
    /\ Cardinality(HunkLines(ReturnedDiff)) = 2
    /\ ReturnedDiff[5] = HunkHeader(5, 5, 5, 5)
    /\ ReturnedDiff[6] = DiffLine("del", <<"1">>)
    /\ ReturnedDiff[7] = DiffLine("add", <<"1", "!">>)
    /\ ReturnedDiff[12] = HunkHeader(11, 5, 11, 5)
    /\ ReturnedDiff[17] = DiffLine("del", <<"f">>)

\* the texts of the lines of one kind of a diff, in order
TextsOfKind(diff, kind) ==
    LET OfKind(line) == line.kind = kind
        lines == SelectSeq(diff, OfKind)
    IN  [i \in 1..Len(lines) |-> lines[i].text]

\* C16: a call that edits the file holding "a\nb\nc\n", the primary answering
\* "a\nb\nd\n" and no other process touching the file, ends in a result whose
\* diff has one hunk with one removed line, c, one added line, d, and the
\* common lines a and b as its context; the file then holds "a\nb\nd\n".
C16_OneLineChangeOneLineDiff ==
    (/\ pc = "done"
     /\ outcome.kind = "result"
     /\ external = 0
     /\ existingContent = ThreeLines
     /\ cerebras.status = "resolved"
     /\ cerebras.value = cleanCodeResponse(ThreeLinesEdited))
    => /\ Len(outcome.content) = 1
       /\ Cardinality(HunkLines(outcome.content[1])) = 1
       /\ TextsOfKind(outcome.content[1], "del") = << <<"c">> >>
       /\ TextsOfKind(outcome.content[1], "add") = << <<"d">> >>
       /\ TextsOfKind(outcome.content[1], "ctx") = << <<"a">>, <<"b">> >>
       /\ fs[Target] = Exists(ThreeLinesEdited)

\* C18: cleanCodeResponse returns a text that holds no fence as it is.
C18_CleanTextUnchanged ==
    (/\ pc = "done"
     /\ Truthy(args.response)
     /\ FenceFrom(args.response, 1) = 0)
    => outcome.content[1] = args.response

\* the text has exactly two fences, which open and close its one block
OneFencedBlock(text) ==
    LET open == FenceFrom(text, 1)
        close == IF open = 0 THEN 0 ELSE FenceFrom(text, open + 3)
    IN  open # 0 /\ close # 0 /\ FenceFrom(text, close + 3) = 0

\* a line that is a language tag and nothing else: letters only
IsBareTag(line) ==
    line # <<>> /\ \A i \in 1..Len(line) : line[i] \in Letters

\* the body of the one block of the text: what stands between the line of the
\* opening fence and the closing fence.  The rest of the opening fence's
\* line is left out when it is empty or a bare language tag, and so is the
\* newline that ends the last line of the body.
BlockBody(text) ==
    LET open == FenceFrom(text, 1)
        close == FenceFrom(text, open + 3)
        content == SubSeq(text, open + 3, close - 1)
        nl == IndexOfNL(content, 1)
        first == IF nl = 0 THEN content ELSE SubSeq(content, 1, nl - 1)
        rest == IF nl = 0 THEN <<>> ELSE SubSeq(content, nl + 1, Len(content))
        body == IF first = <<>> \/ IsBareTag(first) THEN rest ELSE content
    IN  IF body # <<>> /\ body[Len(body)] = NL
        THEN SubSeq(body, 1, Len(body) - 1) ELSE body

\* C19: of a text with exactly one fenced block cleanCodeResponse returns
\* the body of the block, every line of it as it stands, and nothing of the
\* prose around the block.
C19_OneBlockGivesItsBody ==
    (/\ pc = "done"
     /\ Truthy(args.response)
     /\ OneFencedBlock(args.response))
    => outcome.content[1] = BlockBody(args.response)

\* the context file entry names the file the call writes
DesignatesTarget(entry) == absolutePath(entry) = absolutePath(args.file_path)

\* C20: the prompt a provider function has assembled holds no "File:" block
\* of a context file entry that names the target file, in whichever form
\* (absolute, home-relative, relative to the working directory); its blocks
\* are those of the other entries that could be read, in the order of the
\* list.
C20_TargetNotAmongContextFiles ==
    pc \in {"cerebras_existing", "cerebras_wait", "cerebras_receiving",
            "openrouter_existing", "openrouter_wait"}
    => LET IsFile(part) == part.part = "File"
           Kept(entry) ==
               /\ ~DesignatesTarget(entry)
               /\ FileAt(fs, entry).code = "OK"
               /\ Truthy(FileAt(fs, entry).content)
           blocks == SelectSeq(fullPrompt, IsFile)
           kept == SelectSeq(args.context_files, Kept)
       IN  /\ \A i \in 1..Len(blocks) : ~DesignatesTarget(blocks[i].file)
           /\ [i \in 1..Len(blocks) |-> blocks[i].file] = kept

\* a provider function runs its loop over the context files
ContextStep ==
    /\ pc \in {"cerebras_context", "openrouter_context"}
    /\ pc' # pc

\* a provider function reads the target and, the read done, sends its request
RequestStep ==
    /\ pc \in {"cerebras_existing", "openrouter_existing"}
    /\ pc' # pc

\* the context file entries that do not name the target, in order
OtherEntries ==
    LET NotTarget(entry) == absolutePath(entry) # absolutePath(args.file_path)
    IN  SelectSeq(args.context_files, NotTarget)

\* the "File:" blocks of the entries of OtherEntries that file system f lets
\* read and that have content, in order
ReadableBlocks(f) ==
    LET Readable(entry) ==
            FileAt(f, entry).code = "OK" /\ FileAt(f, entry).content # <<>>
        kept == SelectSeq(OtherEntries, Readable)
    IN  [i \in 1..Len(kept) |->
            PromptPart("File", kept[i], FileAt(f, kept[i]).content)]

FileBlocks(prompt) ==
    LET IsFile(part) == part.part = "File"
    IN  SelectSeq(prompt, IsFile)

\* C21: whichever of the context files fail to read, the loop over them
\* ends without an error: every entry is read, those after a failed one
\* too, the prompt holds the blocks of exactly the entries that could be
\* read, and the provider function goes on to read the target; when that
\* read does not throw, the request is sent to the provider.
C21_ContextReadFailureNotFatal ==
    /\ [][ContextStep =>
            /\ pc' = (IF pc = "cerebras_context"
                      THEN "cerebras_existing" ELSE "openrouter_existing")
            /\ outcome' = NoOutcome
            /\ cerebrasError' = cerebrasError
            /\ setupError' = setupError
            /\ fileReads' = fileReads \o AbsolutePaths(OtherEntries)
            /\ FileBlocks(fullPrompt') = ReadableBlocks(fs)]_vars
    /\ [][(RequestStep /\ FileAt(fs, args.file_path).code \in {"OK", "ENOENT"}) =>
            /\ pc' = (IF pc = "cerebras_existing"
                      THEN "cerebras_wait" ELSE "openrouter_wait")
            /\ requests' = Append(requests,
                                  IF pc = "cerebras_existing"
                                  THEN "cerebras" ELSE "openrouter")
            /\ FileBlocks(fullPrompt') = FileBlocks(fullPrompt)]_vars

\* the first context file cannot be read, the second is in the prompt, and
\* the call has succeeded
C21_Witness ==
    /\ pc = "done"
    /\ outcome.kind = "result"
    /\ args.context_files = <<ContextPath, OtherContextPath>>
    /\ fs[ContextPath] = EACCES
    /\ fs[OtherContextPath] = Exists(<<"b", "1">>)
    /\ fileReads = <<Target, ContextPath, OtherContextPath, Target>>
    /\ FileBlocks(fullPrompt) =
         <<PromptPart("File", OtherContextPath, <<"b", "1">>)>>
    /\ requests = <<"cerebras">>
    /\ fs[Target] = Exists(<<"p", "1">>)

\* a provider function has assembled its prompt and sent it
PromptSent == pc \in {"cerebras_wait", "cerebras_receiving", "openrouter_wait"}

\* the place the claimed order gives a part of the prompt: the context
\* section, then the existing file content, then the instruction
PartRank(part) ==
    CASE part.part \in {"Context Files:", "File"} -> 1
      [] part.part = "Existing file content:" -> 2
      [] OTHER -> 3

\* C22: the prompt sent to a provider holds its parts in the order context
\* files, existing file content, instruction: no part stands before a part
\* of a lower place, and the instruction is the last part.
C22_ContextThenExistingThenInstruction ==
    PromptSent
    => /\ \A i \in 1..Len(fullPrompt) : \A j \in 1..Len(fullPrompt) :
            PartRank(fullPrompt[i]) < PartRank(fullPrompt[j]) => i < j
       /\ fullPrompt # <<>>
       /\ fullPrompt[Len(fullPrompt)].part = "Generate"

\* C23: a provider's request counts as a success only with a content: the
\* primary and every call of the secondary resolve with a content, never
\* with undefined, and no write is tried without a content to write.
C23_SuccessNeedsContent ==
    /\ cerebras.status = "resolved" => cerebras.value # UNDEFINED
    /\ \A i \in 1..Len(openRouter) :
         openRouter[i].status = "resolved" => openRouter[i].value # UNDEFINED
    /\ \A i \in 1..Len(fileWrites) : fileWrites[i].content # UNDEFINED

\* the diff text of the result, when the result carries one
ResultDiff == outcome.content[1]

HasResultDiff == pc = "done" /\ outcome.kind = "result" /\ outcome.content # <<>>

\* C24: in the diff text of a result every hunk header is shown with the
\* glyph of hunk headers in place of "@@", every removed line with the glyph
\* of removals in place of "-", every added line with the glyph of additions
\* in place of "+", whatever the text of the line, and every context line
\* with one blank more in front of it.
C24_EveryMarkerShownAsGlyph ==
    HasResultDiff
    => \A i \in 1..Len(ResultDiff) :
         LET line == ResultDiff[i]
         IN  /\ line.kind = "hunk" =>
                  /\ line.shown[1] = GlyphHunk
                  /\ Tail(line.shown) = SubSeq(LineText(line), 3, Len(LineText(line)))
             /\ line.kind = "del" => line.shown = <<GlyphRemoved>> \o line.text
             /\ line.kind = "add" => line.shown = <<GlyphAdded>> \o line.text
             /\ line.kind = "ctx" => line.shown = <<SP, SP>> \o line.text

\* C25: a call that edits a file no other process touches answers the diff
\* between the content the handler read from the file, as it was read, and
\* the content the call wrote.
C25_DiffOfPriorContentAsItWas ==
    (/\ pc = "done"
     /\ outcome.kind = "result"
     /\ external = 0
     /\ isEdit
     /\ Truthy(existingContent))
    => /\ fileWrites # <<>>
       /\ LET diff == generateGitDiff(existingContent, fileWrites[1].content,
                                      args.file_path)
          IN  outcome.content = IF diff = NoDiff THEN <<>>
                                ELSE <<cursorFriendlyDiff(diff)>>

\* C26: a call that ends in a result without a diff, no other process having
\* touched the file, has left the file with the content it had before the
\* call: a result for a file the call changed carries a diff.
C26_NoDiffOnlyWhenUnchanged ==
    (/\ pc = "done"
     /\ outcome.kind = "result"
     /\ external = 0
     /\ outcome.content = <<>>)
    => fs[absolutePath(args.file_path)] = Exists(existingContent)

\* C27: cleanCodeResponse applied to what cleanCodeResponse returned returns
\* it unchanged.
C27_SanitizingTwiceIsSanitizingOnce ==
    pc = "done"
    => cleanCodeResponse(outcome.content[1]) = outcome.content[1]

\* the existing file content the prompt holds, null when it holds none
PromptAnchor ==
    IF fullPrompt # <<>> /\ fullPrompt[1].part = "Existing file content:"
    THEN fullPrompt[1].text ELSE NULL

\* C28: the existing file content in the prompt a provider function sent is
\* the content the handler read as the old content of its diff: the prompt
\* holds it when the handler read a content that is not empty, and holds
\* none otherwise, even when another process writes the file meanwhile.
C28_PromptAnchorIsDiffBase ==
    PromptSent
    => PromptAnchor = (IF Truthy(existingContent) THEN existingContent ELSE NULL)

\* an event of the primary's request is raised after its promise was settled
LateStep == Len(cerebras'.late) > Len(cerebras.late)

\* what the primary's completions are sanitized to, once and twice
PrimaryContents ==
    {cleanCodeResponse(c) : c \in CerebrasCompletions}
    \cup {cleanCodeResponse(cleanCodeResponse(c)) : c \in CerebrasCompletions}

\* C29: an event raised for the primary's request after its promise was
\* settled changes neither the outcome of the attempt (its status, its value,
\* its cause) nor anything else of the call: no step is taken, no request
\* sent, no call of the secondary made, nothing written; the failover from
\* the primary's rejection happens at most once; and after a timeout
\* nothing that the primary answers is written to the file.
C29_SettledAttemptKeepsItsOutcome ==
    /\ [][LateStep =>
            /\ cerebras'.status = cerebras.status
            /\ cerebras'.value = cerebras.value
            /\ cerebras'.cause = cerebras.cause
            /\ UNCHANGED <<pc, result, cerebrasError, setupError, site,
                           openRouter, requests, fileReads, fileWrites, fs,
                           outcome>>]_vars
    /\ [](Cardinality({i \in 1..Len(openRouter) : openRouter[i].site = 574}) <= 1)
    /\ [](Count(requests, "cerebras") <= 1)
    /\ []((cerebras.status = "rejected" /\ cerebras.cause = RequestTimeout)
          => \A i \in 1..Len(fileWrites) :
                 fileWrites[i].content \notin PrimaryContents)

\* the timeout settled the attempt, the error of the abort and the end of a
\* response came after it, and the call wrote the secondary's completion
C29_Witness ==
    /\ pc = "done"
    /\ cerebras.status = "rejected"
    /\ cerebras.cause = RequestTimeout
    /\ cerebras.late = <<"error", "end">>
    /\ requests = <<"cerebras", "openrouter">>
    /\ outcome.kind = "result"
    /\ fileWrites = <<FileWrite(Target, <<"s", "1">>, TRUE)>>

\* the configuration file after the removal
FileAfter == outcome.content[1]

\* C30: after the removal for one editor, a configuration file that could be
\* parsed either is still there, with every entry of another server, every
\* other setting and the permissions it had, or it is deleted and held no
\* entry of another server, no other setting and no permissions.
C30_RemovalKeepsEverythingElse ==
    (pc = "done" /\ args.file.code = "OK")
    => LET before == args.file.config
       IN  IF FileAfter.code = "OK"
           THEN /\ FileAfter.config.servers \ CerebrasServers
                     = before.servers \ CerebrasServers
                /\ FileAfter.config.settings = before.settings
                /\ FileAfter.config.permissions = before.permissions
           ELSE /\ before.servers \subseteq CerebrasServers
                /\ before.settings = {}
                /\ before.permissions = "none"

====
